---- MODULE Spec2Model ----
(***************************************************************************)
(* The query-orchestration pipeline of the insurance support assistant:   *)
(* backend escalation (query_llm), classification, concurrent fan-out to  *)
(* the category agents, result collection, conditional aggregation, the   *)
(* bounded response cache (cache_utils.py) and the conversation history,  *)
(* as run by the thread-pool CLI (insurance_assistant.py) and by the      *)
(* network endpoint (fastapi_insurance_assistant.py).                     *)
(***************************************************************************)
EXTENDS Integers, Sequences, FiniteSets, TLC

VARIABLES
    frontend,    \* which script runs: "cli" or "api"
    badCorpus,   \* domain labels whose corpus file holds entries without 'title'/'content'
    cache,       \* query_cache: the OrderedDict, as a sequence of [key, val] in dict order
    disk,        \* the contents of CACHE_FILE as last written by save_cache
    history,     \* the deque(maxlen=MAX_HISTORY) of <<query, response>>
    pc,          \* position of the main thread inside one turn
    query,       \* user_query of the turn
    categories,  \* the list classify_categories returned
    futures,     \* the submitted tasks, in submission order
    answers,     \* the answers dict, as a sequence of [cat, text] in dict order
    response,    \* the turn's response (a value of the cache, or NoValue)
    invoked,     \* how often this turn ran the classifier, the agents, the aggregator
    fresh,       \* distinct query texts submitted so far
    repeats,     \* submissions of an already submitted query text so far
    stamp,       \* for each key in the cache, the tick at which it was inserted
    clock,       \* ticks: one per mutation of the cache
    merged,      \* insurance_answers as handed to aggregate_answers this turn
    fault,       \* the turn ended in an exception that left the turn's code
    unit,        \* the last direct call of a pure function, with its inputs and result
    requests     \* the endpoint's requests in flight, each with its own locals

vars == <<frontend, badCorpus, cache, disk, history, pc, query, categories,
          futures, answers, response, invoked, fresh, repeats, stamp,
          clock, merged, fault, unit, requests>>

----------------------------------------------------------------------------
(* Program constants *)

CATEGORIES == <<"greeting", "unrelated", "policy_types", "benefits", "eligibility", "claims">>

ConversationalLabels == {"greeting", "unrelated"}

MAX_HISTORY == 5

MAX_CACHE_SIZE == 20

BASE_MODEL == "llama-3.3-70b-versatile"

FALLBACK_MODEL == "llama-3.3-7b-instant"

----------------------------------------------------------------------------
(* Bounds of the model *)

\* longest list literal the backend writes as a classification
MaxCats == 2

\* distinct query texts per run of the cache scenario
MaxFresh == 21

\* resubmissions of an earlier query text per run
MaxRepeats == 1

----------------------------------------------------------------------------
(* Texts.  Every str of the program is a record that says how Python reads *)
(* it as source: kind "list" is a list literal of items, "str" a quoted    *)
(* string literal, "int" a number, "text" anything ast.literal_eval        *)
(* rejects (a bare word, prose, the empty string); word is the text, and   *)
(* for an f-string word is its template and args are the values put in.    *)

Text(w) == [kind |-> "text", items |-> <<>>, word |-> w, args |-> <<>>]

FString(template, values) ==
    [kind |-> "text", items |-> <<>>, word |-> template, args |-> values]

ListText(its) == [kind |-> "list", items |-> its, word |-> "[...]", args |-> <<>>]

StrLiteral(w) == [kind |-> "str", items |-> <<>>, word |-> w, args |-> <<>>]

IntLiteral == [kind |-> "int", items |-> <<>>, word |-> "7", args |-> <<>>]

APOLOGY == Text("Sorry, I am unable to process your request at the moment. Please try again later.")

UNRELATED_REPLY == Text("Sorry, I can only answer questions about life insurance policies, benefits, eligibility, and claims.")

AGGREGATION_APOLOGY == Text("Sorry, unable to combine category answers at this time.")

UnableToAnswer(cat) == FString("Unable to answer from {category} category.", <<cat>>)

\* e is the exception the agent raised, as a Text
ErrorMarker(cat, e) == FString("Error in {cat} agent: {e}", <<cat, e.word>>)

\* str.strip() and str.lower() on the words the model writes
strip(w) == IF w = " Claims " THEN "Claims" ELSE w

lower(w) == IF w = "Claims" THEN "claims" ELSE w

Range(s) == {s[i] : i \in DOMAIN s}

RECURSIVE SeqsUpTo(_, _)
SeqsUpTo(S, n) ==
    IF n = 0 THEN {<<>>}
    ELSE LET shorter == SeqsUpTo(S, n - 1)
         IN  shorter \cup {Append(s, x) : s \in {t \in shorter : Len(t) = n - 1}, x \in S}

----------------------------------------------------------------------------
(* What the backends may answer *)

\* words the backend writes inside a classification
ReplyWords == {"greeting", "unrelated", "benefits", "claims", " Claims ", "fraud"}

\* elements of a list literal: quoted strings and a number
ReplyItems == {<<"str", w>> : w \in ReplyWords} \cup {<<"int", "7">>}

\* classification replies: list literals, a quoted string, a number, bare text
ClassifierReplies ==
    {ListText(its) : its \in SeqsUpTo(ReplyItems, MaxCats)}
    \cup {StrLiteral("benefits"), IntLiteral}
    \cup {Text(w) : w \in {"benefits", " Claims ", "fraud", ""}}

\* answers of the backend to an agent or to the aggregator
AnswerTexts == {Text("t1"), Text("t2"), Text("")}

Outcome(ok, content) == [ok |-> ok, content |-> content]

BackendDown == Outcome(FALSE, Text("timeout"))

OutcomesOver(contents) == {Outcome(TRUE, c) : c \in contents} \cup {BackendDown}

----------------------------------------------------------------------------
(* ComputationBackend: query_llm *)

\* primary (p) first; the fallback (f) only when the primary raised; the
\* apology when both raised.  calls lists the backends invoked, in order.
query_llm_reraising(p, f) ==
    IF p.ok THEN [content |-> p.content, calls |-> <<BASE_MODEL>>, raised |-> FALSE]
    ELSE IF f.ok
         THEN [content |-> f.content, calls |-> <<BASE_MODEL, FALLBACK_MODEL>>, raised |-> FALSE]
         ELSE [content |-> Text("timeout"), calls |-> <<BASE_MODEL, FALLBACK_MODEL>>, raised |-> TRUE]

query_llm(p, f) ==
    IF p.ok THEN [content |-> p.content, calls |-> <<BASE_MODEL>>, raised |-> FALSE]
    ELSE IF f.ok
         THEN [content |-> f.content, calls |-> <<BASE_MODEL, FALLBACK_MODEL>>, raised |-> FALSE]
         ELSE [content |-> APOLOGY, calls |-> <<BASE_MODEL, FALLBACK_MODEL>>, raised |-> FALSE]

----------------------------------------------------------------------------
(* Classifier *)

\* ast.literal_eval of the reply: ok with the elements iteration yields, or
\* ok and not iterable (a number), or not ok (ValueError / SyntaxError).
\* Iterating a str yields its characters, each a one-character str.
literal_eval(t) ==
    CASE t.kind = "list" -> [ok |-> TRUE, iterable |-> TRUE, elems |-> t.items]
      [] t.kind = "str"  -> [ok |-> TRUE, iterable |-> TRUE,
                             elems |-> IF t.word = "" THEN <<>> ELSE << <<"str", "b">> >>]
      [] t.kind = "int"  -> [ok |-> TRUE, iterable |-> FALSE, elems |-> <<>>]
      [] OTHER           -> [ok |-> FALSE, iterable |-> FALSE, elems |-> <<>>]

IsStr(item) == item[1] = "str"

RECURSIVE NormalizedKnown(_)
\* [c.strip().lower() for c in categories if c.strip().lower() in CATEGORIES]
NormalizedKnown(elems) ==
    IF elems = <<>> THEN <<>>
    ELSE LET c == lower(strip(Head(elems)[2]))
         IN  (IF c \in Range(CATEGORIES) THEN <<c>> ELSE <<>>) \o NormalizedKnown(Tail(elems))

RECURSIVE ExactKnown_unfiltered(_)
ExactKnown_unfiltered(elems) ==
    IF elems = <<>> THEN <<>>
    ELSE <<Head(elems)[2]>> \o ExactKnown_unfiltered(Tail(elems))

RECURSIVE ExactKnown(_)
\* [c for c in cats if c in CATEGORIES]
ExactKnown(elems) ==
    IF elems = <<>> THEN <<>>
    ELSE (IF IsStr(Head(elems)) /\ Head(elems)[2] \in Range(CATEGORIES)
          THEN <<Head(elems)[2]>> ELSE <<>>) \o ExactKnown(Tail(elems))

\* insurance_assistant.py: the reply is stripped, parsed and filtered; when
\* the parse or the comprehension raises, a reply that is itself a label
\* (case-insensitively) is returned as that one label.
classify_cli(llm) ==
    IF llm.raised THEN [cats |-> <<"unrelated">>, raised |-> FALSE]
    ELSE
    LET resp == [llm.content EXCEPT !.word = strip(@)]
        v    == literal_eval(resp)
        comprehensionRaises == ~v.iterable \/ \E i \in DOMAIN v.elems : ~IsStr(v.elems[i])
    IN  IF v.ok /\ ~comprehensionRaises
        THEN LET cs == NormalizedKnown(v.elems)
             IN  [cats |-> IF cs # <<>> THEN cs ELSE <<"unrelated">>, raised |-> FALSE]
        ELSE IF resp.kind = "text" /\ lower(resp.word) \in Range(CATEGORIES)
             THEN [cats |-> <<lower(resp.word)>>, raised |-> FALSE]
             ELSE [cats |-> <<"unrelated">>, raised |-> FALSE]

\* fastapi_insurance_assistant.py: exact-match filter, any failure of the
\* parse or of the iteration gives ["unrelated"]; a raise of query_llm is
\* outside the try.
classify_api(llm) ==
    IF llm.raised THEN [cats |-> <<>>, raised |-> TRUE]
    ELSE
    LET resp == [llm.content EXCEPT !.word = strip(@)]
        v    == literal_eval(resp)
    IN  IF v.ok /\ v.iterable
        THEN LET cs == ExactKnown(v.elems)
             IN  [cats |-> IF cs # <<>> THEN cs ELSE <<"unrelated">>, raised |-> FALSE]
        ELSE [cats |-> <<"unrelated">>, raised |-> FALSE]

classify_categories(fe, llm) ==
    IF fe = "cli" THEN classify_cli(llm) ELSE classify_api(llm)

----------------------------------------------------------------------------
(* Python values held by the cache and by response *)

PyStr(t) == [type |-> "str", text |-> t, list |-> <<>>]

PyList(l) == [type |-> "list", text |-> Text(""), list |-> l]

NoValue == [type |-> "none", text |-> Text(""), list |-> <<>>]

\* bool(v): None, "" and [] are false
Truthy(v) ==
    CASE v.type = "none" -> FALSE
      [] v.type = "str"  -> ~(v.text.kind = "text" /\ v.text.word = "")
      [] OTHER           -> v.list # <<>>

----------------------------------------------------------------------------
(* ResponseCache: cache_utils.py over an OrderedDict *)

\* a query text is <<id, n>>: the text numbered id followed by n copies of
\* the suffix '_categories'
CatKey(q) == <<q[1], q[2] + 1>>

KeysOf(c) == {c[i].key : i \in DOMAIN c}

dict_get(c, k) ==
    IF k \in KeysOf(c) THEN (CHOOSE e \in Range(c) : e.key = k).val ELSE NoValue

\* d[k] = v: a present key keeps its place, a new key goes last
dict_set(c, k, v) ==
    IF k \in KeysOf(c)
    THEN [i \in DOMAIN c |-> IF c[i].key = k THEN [key |-> k, val |-> v] ELSE c[i]]
    ELSE Append(c, [key |-> k, val |-> v])

popitem_newest(c) == SubSeq(c, 1, Len(c) - 1)

\* cache.popitem(last=False)
popitem_oldest(c) == Tail(c)

evict_never(c) == c

RECURSIVE evict(_)
\* while len(cache) > MAX_CACHE_SIZE: cache.popitem(last=False)
evict(c) == IF Len(c) > MAX_CACHE_SIZE THEN evict(popitem_oldest(c)) ELSE c

get_cached_answer(c, q) == dict_get(c, q)

\* the dict update_cache leaves behind (it then saves it)
update_cache(c, q, a) == evict(dict_set(c, q, a))

\* The cache file.  kind is "missing", "unreadable" (open raises), "garbage"
\* (not JSON), "scalar" (JSON that OrderedDict() rejects: a number, null, a
\* string), "object" or "pairs" (a JSON array of [key, value] arrays, which
\* OrderedDict() accepts); members are the pairs in file order.
File(kind, members) == [kind |-> kind, members |-> members]

NoFile == File("missing", <<>>)

\* json.dump of a value: a str becomes a JSON string, a list a JSON array
json_of(v) ==
    [json |-> IF v.type = "str" THEN "string" ELSE "array",
     text |-> v.text, list |-> v.list]

\* json.load of a JSON string or array
py_of(j) ==
    [type |-> IF j.json = "string" THEN "str" ELSE "list",
     text |-> j.text, list |-> j.list]

save_cache_nothing(c) == NoFile

\* save_cache: the file becomes the JSON object of the dict, in dict order
save_cache(c) ==
    File("object", [i \in DOMAIN c |-> [key |-> c[i].key, val |-> json_of(c[i].val)]])

\* open, json.load and OrderedDict(data): the dict of the pairs in file
\* order, or an exception
read_file(file) ==
    IF file.kind \in {"object", "pairs"}
    THEN [ok |-> TRUE,
          dict |-> [i \in DOMAIN file.members |->
                      [key |-> file.members[i].key, val |-> py_of(file.members[i].val)]]]
    ELSE [ok |-> FALSE, dict |-> <<>>]

load_cache_uncaught(file) ==
    IF file.kind = "missing" THEN [raised |-> FALSE, dict |-> <<>>]
    ELSE [raised |-> ~read_file(file).ok, dict |-> read_file(file).dict]

\* load_cache: an empty dict when the file does not exist; the bare except
\* turns every exception of the read into an empty dict
load_cache(file) ==
    IF file.kind = "missing" THEN [raised |-> FALSE, dict |-> <<>>]
    ELSE IF read_file(file).ok THEN [raised |-> FALSE, dict |-> read_file(file).dict]
    ELSE [raised |-> FALSE, dict |-> <<>>]

\* ticks of insertion of the keys of the dict c2 that follows the current one
Stamped(c2) ==
    [k \in KeysOf(c2) |-> IF k \in DOMAIN stamp THEN stamp[k] ELSE clock + 1]

----------------------------------------------------------------------------
(* ConversationHistory: deque(maxlen=MAX_HISTORY).append *)

deque_append_unbounded(h, x) == Append(h, x)

\* append on a deque(maxlen=MAX_HISTORY): a full deque drops its left end
deque_append(h, x) ==
    IF Len(h) >= MAX_HISTORY THEN Append(Tail(h), x) ELSE Append(h, x)

----------------------------------------------------------------------------
(* Responders *)

DomainLabels == Range(CATEGORIES) \ ConversationalLabels

Returned(t) == [ok |-> TRUE, val |-> t]

Raised(e) == [ok |-> FALSE, val |-> Text(e)]

\* greeting_agent: the backend's text
greeting_agent(p, f) ==
    LET llm == query_llm(p, f)
    IN  IF llm.raised THEN Raised("backend") ELSE Returned(llm.content)

\* unrelated_agent: the canned reply, no backend call
unrelated_agent == Returned(UNRELATED_REPLY)

\* insurance_assistant.py category_agent_template: everything inside try;
\* a corpus entry without 'title' raises KeyError, which is caught
category_agent_cli(cat, bad, p, f) ==
    IF cat \in bad THEN Returned(UnableToAnswer(cat))
    ELSE LET llm == query_llm(p, f)
         IN  IF llm.raised THEN Returned(UnableToAnswer(cat))
             ELSE Returned(llm.content)

\* fastapi_insurance_assistant.py category_agent_template: no try; the
\* f-string of user_msg reads the name query, which is neither a parameter
\* nor a global, so the call raises NameError before query_llm is reached
\* (KeyError first when the corpus entry lacks 'title')
category_agent_api(cat, bad, p, f) ==
    IF cat \in bad THEN Raised("'title'")
    ELSE Raised("name 'query' is not defined")

\* category_agents_map[cat](user_query, history)
run_agent(fe, cat, bad, p, f) ==
    CASE cat = "greeting"  -> greeting_agent(p, f)
      [] cat = "unrelated" -> unrelated_agent
      [] OTHER -> IF fe = "cli" THEN category_agent_cli(cat, bad, p, f)
                  ELSE category_agent_api(cat, bad, p, f)

----------------------------------------------------------------------------
(* Dispatcher and Aggregator helpers *)

AnswerKeys(a) == {a[i].cat : i \in DOMAIN a}

\* answers[cat] = text
answers_set(a, cat, text) ==
    IF cat \in AnswerKeys(a)
    THEN [i \in DOMAIN a |-> IF a[i].cat = cat THEN [cat |-> cat, text |-> text] ELSE a[i]]
    ELSE Append(a, [cat |-> cat, text |-> text])

collected_untagged(fut) == fut.val

\* try: answers[cat] = future.result()  except: answers[cat] = f"Error in {cat} agent: {e}"
collected_text(fut) ==
    IF fut.ok THEN fut.val ELSE ErrorMarker(fut.cat, fut.val)

JoinFirst == \E i \in DOMAIN futures : futures[i].status = "collected"

\* the for loop over as_completed(futures) and the executor's with block end
\* only when every future has been yielded
JoinAll == \A i \in DOMAIN futures : futures[i].status = "collected"

RECURSIVE insurance_cats(_)
\* [c for c in categories if c not in ["greeting", "unrelated"]]
insurance_cats(cats) ==
    IF cats = <<>> THEN <<>>
    ELSE (IF Head(cats) \notin ConversationalLabels THEN <<Head(cats)>> ELSE <<>>)
         \o insurance_cats(Tail(cats))

\* if len(insurance_cats) > 1
NeedsAggregation(cats) == Len(insurance_cats(cats)) > 1

RECURSIVE insurance_answers(_, _)
\* {k: v for k, v in answers.items() if k in insurance_cats}
insurance_answers(a, cats) ==
    IF a = <<>> THEN <<>>
    ELSE (IF Head(a).cat \in Range(insurance_cats(cats)) THEN <<Head(a)>> ELSE <<>>)
         \o insurance_answers(Tail(a), cats)

\* list(answers.values())[0]
first_answer(a) == a[1].text

\* aggregate_answers: the CLI catches a failure, the endpoint does not
aggregate_answers(fe, p, f) ==
    LET llm == query_llm(p, f)
    IN  IF ~llm.raised THEN [ok |-> TRUE, val |-> llm.content]
        ELSE IF fe = "cli" THEN [ok |-> TRUE, val |-> AGGREGATION_APOLOGY]
             ELSE [ok |-> FALSE, val |-> Text("backend")]

----------------------------------------------------------------------------
(* State after start-up: no cache file, so load_cache gives an empty dict *)

NoCalls == [classifier |-> 0, agents |-> 0, aggregator |-> 0]

Idle == [stage |-> "idle", fn |-> "none", fe |-> "cli", p |-> BackendDown,
         f |-> BackendDown, content |-> Text(""), calls |-> <<>>,
         cats |-> <<>>, raised |-> FALSE]

\* corpora that may be malformed on disk
CorpusFaults == {{}, {"claims"}}

Start(fes, bads, units) ==
    /\ frontend \in fes
    /\ badCorpus \in bads
    /\ disk = NoFile
    /\ cache = load_cache(disk).dict
    /\ history = <<>>
    /\ pc = "input"
    /\ query = <<0, 0>>
    /\ categories = <<>>
    /\ futures = <<>>
    /\ answers = <<>>
    /\ response = NoValue
    /\ invoked = NoCalls
    /\ fresh = 0
    /\ repeats = 0
    /\ stamp = <<>>
    /\ clock = 0
    /\ merged = <<>>
    /\ fault = FALSE
    /\ unit \in units
    /\ requests = <<>>

Init == Start({"cli", "api"}, CorpusFaults, {Idle})

----------------------------------------------------------------------------
(* One turn: the body of chat()'s loop / of chat_endpoint *)

\* input(), the cache lookup and the branch on it
Receive(Q) ==
    /\ pc = "input"
    /\ frontend \in {"cli", "api"}
    /\ \E q \in Q :
        LET cached_answer == get_cached_answer(cache, q)
        IN  /\ query' = q
            /\ IF Truthy(cached_answer)
               THEN response' = cached_answer /\ pc' = "deliver"
               ELSE response' = NoValue /\ pc' = "classify"
            /\ fresh' = IF q[1] > fresh THEN q[1] ELSE fresh
            /\ repeats' = IF q[1] > fresh THEN repeats ELSE repeats + 1
    /\ categories' = <<>>
    /\ futures' = <<>>
    /\ answers' = <<>>
    /\ merged' = <<>>
    /\ invoked' = NoCalls
    /\ fault' = FALSE
    /\ UNCHANGED <<requests, frontend, badCorpus, cache, disk, history, stamp, clock, unit>>

\* 'exit' / 'quit' at the CLI prompt
Exit ==
    /\ pc = "input"
    /\ frontend \in {"cli", "langgraph"}
    /\ pc' = "exited"
    /\ UNCHANGED <<requests, frontend, badCorpus, cache, disk, history, query, categories,
                   futures, answers, response, invoked, fresh, repeats,
                   stamp, clock, merged, fault, unit>>

\* classify_categories, query_cache[q + '_categories'] = categories, save_cache
Classify(P, F) ==
    /\ pc = "classify"
    /\ \E p \in P, f \in F :
        LET r == classify_categories(frontend, query_llm(p, f))
            c2 == dict_set(cache, CatKey(query), PyList(r.cats))
        IN  IF r.raised
            THEN /\ fault' = TRUE
                 /\ pc' = "input"
                 /\ UNCHANGED <<categories, cache, disk, stamp, clock>>
            ELSE /\ categories' = r.cats
                 /\ cache' = c2
                 /\ disk' = save_cache(c2)
                 /\ stamp' = Stamped(c2)
                 /\ clock' = clock + 1
                 /\ pc' = "submit"
                 /\ fault' = FALSE
    /\ invoked' = [invoked EXCEPT !.classifier = @ + 1]
    /\ UNCHANGED <<requests, frontend, badCorpus, history, query, futures, answers,
                   response, fresh, repeats, merged, unit>>

\* executor.submit for each cat in categories
Submit ==
    /\ pc = "submit"
    /\ futures' = [i \in DOMAIN categories |->
                     [cat |-> categories[i], status |-> "pending",
                      ok |-> TRUE, val |-> Text("")]]
    /\ pc' = "collect"
    /\ UNCHANGED <<requests, frontend, badCorpus, cache, disk, history, query, categories,
                   answers, response, invoked, fresh, repeats, stamp,
                   clock, merged, fault, unit>>

\* a worker thread runs one submitted agent to its end
RunAgent(P, F) ==
    /\ pc = "collect"
    /\ \E i \in DOMAIN futures :
        /\ futures[i].status = "pending"
        /\ \E p \in P, f \in F :
            LET r == run_agent(frontend, futures[i].cat, badCorpus, p, f)
            IN  futures' = [futures EXCEPT ![i] =
                              [cat |-> futures[i].cat, status |-> "finished",
                               ok |-> r.ok, val |-> r.val]]
    /\ invoked' = [invoked EXCEPT !.agents = @ + 1]
    /\ UNCHANGED <<requests, frontend, badCorpus, cache, disk, history, pc, query,
                   categories, answers, response, fresh, repeats, stamp,
                   clock, merged, fault, unit>>

\* as_completed yields a finished future; its result or its error is stored
Collect ==
    /\ pc = "collect"
    /\ \E i \in DOMAIN futures :
        /\ futures[i].status = "finished"
        /\ answers' = answers_set(answers, futures[i].cat, collected_text(futures[i]))
        /\ futures' = [futures EXCEPT ![i].status = "collected"]
    /\ UNCHANGED <<requests, frontend, badCorpus, cache, disk, history, pc, query,
                   categories, response, invoked, fresh, repeats, stamp,
                   clock, merged, fault, unit>>

\* after the with block: aggregate, or take the first value of answers
Select ==
    /\ pc = "collect"
    /\ JoinAll
    /\ IF NeedsAggregation(categories)
       THEN /\ merged' = insurance_answers(answers, categories)
            /\ pc' = "aggregate"
            /\ UNCHANGED response
       ELSE /\ response' = PyStr(first_answer(answers))
            /\ pc' = "store"
            /\ UNCHANGED merged
    /\ UNCHANGED <<requests, frontend, badCorpus, cache, disk, history, query, categories,
                   futures, answers, invoked, fresh, repeats, stamp,
                   clock, fault, unit>>

\* aggregate_answers(user_query, insurance_answers)
Aggregate(P, F) ==
    /\ pc = "aggregate"
    /\ \E p \in P, f \in F :
        LET r == aggregate_answers(frontend, p, f)
        IN  IF r.ok
            THEN response' = PyStr(r.val) /\ pc' = "store" /\ fault' = FALSE
            ELSE response' = NoValue /\ pc' = "input" /\ fault' = TRUE
    /\ invoked' = [invoked EXCEPT !.aggregator = @ + 1]
    /\ UNCHANGED <<requests, frontend, badCorpus, cache, disk, history, query, categories,
                   futures, answers, fresh, repeats, stamp, clock,
                   merged, unit>>

\* update_cache(query_cache, user_query, response); save_cache(query_cache)
Store ==
    /\ pc = "store"
    /\ LET c2 == update_cache(cache, query, response)
       IN  /\ cache' = c2
           /\ disk' = save_cache(c2)
           /\ stamp' = Stamped(c2)
    /\ clock' = clock + 1
    /\ pc' = "deliver"
    /\ UNCHANGED <<requests, frontend, badCorpus, history, query, categories, futures,
                   answers, response, invoked, fresh, repeats, merged,
                   fault, unit>>

\* print / return the response; history.append((user_query, response))
Deliver ==
    /\ pc = "deliver"
    /\ history' = deque_append(history, <<query, response>>)
    /\ pc' = "input"
    /\ UNCHANGED <<requests, frontend, badCorpus, cache, disk, query, categories, futures,
                   answers, response, invoked, fresh, repeats, stamp,
                   clock, merged, fault, unit>>

----------------------------------------------------------------------------
(* The pipeline in detail, a few turns: any classification, any outcome of *)
(* every backend call, every interleaving of the agents                    *)

\* one query text, submitted and then resubmitted
PipelineQueries ==
    IF fresh = 0 \/ repeats < MaxRepeats THEN {<<1, 0>>} ELSE {}

FallbackReplies == {ListText(<< <<"str", "claims">> >>)}

FallbackAnswers == {Text("t2")}

PrimaryReplyOutcomes == OutcomesOver(ClassifierReplies)

FallbackReplyOutcomes == OutcomesOver(FallbackReplies)

PrimaryAnswerOutcomes == OutcomesOver(AnswerTexts)

FallbackAnswerOutcomes == OutcomesOver(FallbackAnswers)

Next ==
    \/ Receive(PipelineQueries)
    \/ Exit
    \/ Classify(PrimaryReplyOutcomes, FallbackReplyOutcomes)
    \/ Submit
    \/ RunAgent(PrimaryAnswerOutcomes, FallbackAnswerOutcomes)
    \/ Collect
    \/ Select
    \/ Aggregate(PrimaryAnswerOutcomes, FallbackAnswerOutcomes)
    \/ Store
    \/ Deliver

Spec == Init /\ [][Next]_vars

----------------------------------------------------------------------------
(* The cache over many turns: query texts 1, 2, 3, ... in order, the first *)
(* or the latest of them resubmitted at any time; the first may be         *)
(* classified into two domain labels and may be given the empty answer     *)

InitCache == Start({"cli"}, {{}}, {Idle})

CacheQueries ==
    (IF fresh < MaxFresh THEN {<<fresh + 1, 0>>} ELSE {})
    \cup (IF fresh > 0 /\ repeats < MaxRepeats THEN {<<1, 0>>, <<fresh, 0>>} ELSE {})

\* the fallback backend is down throughout
CacheFallback == {BackendDown}

CacheReplies ==
    IF query[1] = 1
    THEN {Outcome(TRUE, ListText(<< <<"str", "benefits">> >>)),
          Outcome(TRUE, ListText(<< <<"str", "benefits">>, <<"str", "claims">> >>))}
    ELSE {Outcome(TRUE, ListText(<< <<"str", "benefits">> >>))}

CacheAnswers ==
    IF query[1] = 1
    THEN {Outcome(TRUE, Text("t1")), Outcome(TRUE, Text(""))}
    ELSE {Outcome(TRUE, Text("t1"))}

NextCache ==
    \/ Receive(CacheQueries)
    \/ Exit
    \/ Classify(CacheReplies, CacheFallback)
    \/ Submit
    \/ RunAgent(CacheAnswers, CacheFallback)
    \/ Collect
    \/ Select
    \/ Aggregate(CacheAnswers, CacheFallback)
    \/ Store
    \/ Deliver

SpecCache == InitCache /\ [][NextCache]_vars

----------------------------------------------------------------------------
(* query_llm and classify_categories called directly, on every reply *)

UnitFallbackReplies == FallbackReplies \cup {Text("benefits"), IntLiteral}

UnitCalls ==
    {[Idle EXCEPT !.stage = "call", !.fn = "query_llm", !.p = p, !.f = f] :
        p \in OutcomesOver(ClassifierReplies \cup AnswerTexts),
        f \in OutcomesOver(UnitFallbackReplies \cup FallbackAnswers)}
    \cup
    {[Idle EXCEPT !.stage = "call", !.fn = "classify_categories", !.fe = fe,
                  !.p = p, !.f = f] :
        fe \in {"cli", "api"},
        p \in OutcomesOver(ClassifierReplies),
        f \in OutcomesOver(UnitFallbackReplies)}

InitUnit == Start({"cli"}, {{}}, UnitCalls)

CallQueryLLM ==
    /\ unit.stage = "call"
    /\ unit.fn = "query_llm"
    /\ LET r == query_llm(unit.p, unit.f)
       IN  unit' = [unit EXCEPT !.stage = "returned", !.content = r.content,
                                !.calls = r.calls, !.raised = r.raised]
    /\ UNCHANGED <<requests, frontend, badCorpus, cache, disk, history, pc, query,
                   categories, futures, answers, response, invoked, fresh,
                   repeats, stamp, clock, merged, fault>>

CallClassify ==
    /\ unit.stage = "call"
    /\ unit.fn = "classify_categories"
    /\ LET llm == query_llm(unit.p, unit.f)
           r   == classify_categories(unit.fe, llm)
       IN  unit' = [unit EXCEPT !.stage = "returned", !.content = llm.content,
                                !.calls = llm.calls, !.cats = r.cats,
                                !.raised = r.raised]
    /\ UNCHANGED <<requests, frontend, badCorpus, cache, disk, history, pc, query,
                   categories, futures, answers, response, invoked, fresh,
                   repeats, stamp, clock, merged, fault>>

NextUnit == CallQueryLLM \/ CallClassify

SpecUnit == InitUnit /\ [][NextUnit]_vars

----------------------------------------------------------------------------
(* Claims about the backend and the classifier, under SpecUnit *)

Returned_query_llm == unit.stage = "returned" /\ unit.fn = "query_llm"

Returned_classify == unit.stage = "returned" /\ unit.fn = "classify_categories"

\* C1: query_llm never raises; it calls the primary backend first and returns
\* its text on success; it calls the fallback at most once and only after the
\* primary failed, returning the fallback's text on success; it returns the
\* apology exactly when both failed.
C1_Escalation ==
    Returned_query_llm =>
        /\ ~unit.raised
        /\ Len(unit.calls) >= 1 /\ unit.calls[1] = BASE_MODEL
        /\ Cardinality({i \in DOMAIN unit.calls : unit.calls[i] = BASE_MODEL}) = 1
        /\ Cardinality({i \in DOMAIN unit.calls : unit.calls[i] = FALLBACK_MODEL}) <= 1
        /\ (\E i \in DOMAIN unit.calls : unit.calls[i] = FALLBACK_MODEL) <=> ~unit.p.ok
        /\ unit.p.ok => unit.content = unit.p.content
        /\ (~unit.p.ok /\ unit.f.ok) => unit.content = unit.f.content
        /\ (unit.content = APOLOGY) <=> (~unit.p.ok /\ ~unit.f.ok)

\* both backends failed and the apology came back
C1_Witness ==
    /\ Returned_query_llm
    /\ ~unit.p.ok /\ ~unit.f.ok
    /\ unit.content = APOLOGY
    /\ unit.calls = <<BASE_MODEL, FALLBACK_MODEL>>

\* the labels of a list literal that pass the front end's filter
SurvivingLabels(fe, t) ==
    IF t.kind # "list" THEN {}
    ELSE {l \in Range(CATEGORIES) :
            \E i \in DOMAIN t.items :
                /\ t.items[i][1] = "str"
                /\ IF fe = "cli" THEN lower(strip(t.items[i][2])) = l
                   ELSE t.items[i][2] = l}

\* ast.literal_eval rejects the reply
Unparsable(t) == t.kind = "text"

\* the whole reply, stripped and lower-cased, is a label
BareLabel(t) == Unparsable(t) /\ lower(strip(t.word)) \in Range(CATEGORIES)

C2_Total ==
    /\ ~unit.raised
    /\ unit.cats # <<>>
    /\ Range(unit.cats) \subseteq Range(CATEGORIES)

\* C2 as stated: total, non-empty, only enumerated labels, and exactly
\* [unrelated] whenever parsing fails or no known label survives filtering.
C2_AsStated ==
    Returned_classify =>
        /\ C2_Total
        /\ (Unparsable(unit.content) \/ SurvivingLabels(unit.fe, unit.content) = {})
              => unit.cats = <<"unrelated">>

\* C2 amended: total, non-empty, only enumerated labels; exactly [unrelated]
\* whenever no known label survives filtering and the reply is not itself a
\* bare label; on a parse failure the CLI returns the one label the whole
\* reply spells (case-insensitively) and [unrelated] otherwise, the endpoint
\* always [unrelated].
C2_ClassifyTotal ==
    Returned_classify =>
        /\ C2_Total
        /\ (SurvivingLabels(unit.fe, unit.content) = {} /\ ~BareLabel(unit.content))
              => unit.cats = <<"unrelated">>
        /\ Unparsable(unit.content) =>
              unit.cats = IF unit.fe = "cli" /\ BareLabel(unit.content)
                          THEN <<lower(strip(unit.content.word))>>
                          ELSE <<"unrelated">>

\* the CLI got the bare word Claims in blanks and answered [claims]
C2_Witness ==
    /\ Returned_classify
    /\ unit.fe = "cli"
    /\ unit.content = Text(" Claims ")
    /\ unit.cats = <<"claims">>

----------------------------------------------------------------------------
(* Claims about one turn, under Spec *)

\* the turn missed the cache and has its response ready to deliver
MissDone == pc = "deliver" /\ invoked.classifier = 1

PreviousTurn == history[Len(history)]

FuturesOf(c) == {j \in DOMAIN futures : futures[j].cat = c}

DistinctDomainLabels(cats) == Range(cats) \cap DomainLabels

\* C3: in the sequential front end, a query text submitted again right after
\* its own turn gets the same answer from the cache, and that second turn
\* runs neither the classifier nor any agent nor the aggregator.
C3_Idempotent ==
    (frontend = "cli" /\ pc = "deliver" /\ history # <<>> /\ PreviousTurn[1] = query)
        => /\ response = PreviousTurn[2]
           /\ invoked = NoCalls

\* C4: after dispatch, every label whose agent raised holds an error-tagged
\* string naming that label and its error, every other label holds the text
\* its own agent returned, there is one entry per dispatched label, and the
\* turn still has a text response.
C4_FaultIsolation ==
    MissDone =>
        /\ AnswerKeys(answers) = Range(categories)
        /\ \A i \in DOMAIN answers :
             LET c == answers[i].cat
             IN  IF \E j \in FuturesOf(c) : ~futures[j].ok
                 THEN \E j \in FuturesOf(c) :
                        /\ ~futures[j].ok
                        /\ answers[i].text.word = "Error in {cat} agent: {e}"
                        /\ answers[i].text.args = <<c, futures[j].val.word>>
                 ELSE \E j \in FuturesOf(c) : answers[i].text = futures[j].val
        /\ response.type = "str"
        /\ ~fault

\* the endpoint dispatched greeting and benefits: benefits raised and is
\* error-tagged, greeting kept the backend's text
C4_Witness ==
    /\ MissDone
    /\ frontend = "api"
    /\ categories = <<"greeting", "benefits">>
    /\ \E i, j \in DOMAIN answers :
         /\ answers[i].cat = "benefits"
         /\ answers[i].text.args = <<"benefits", "name 'query' is not defined">>
         /\ answers[j].cat = "greeting"
         /\ answers[j].text = Text("t1")

\* C5: the aggregator and the choice of the final answer start only after
\* every agent fanned out for the turn has completed and been collected.
C5_JoinAllFirst ==
    (pc \in {"aggregate", "store"} \/ MissDone) =>
        /\ Len(futures) = Len(categories)
        /\ \A i \in DOMAIN futures : futures[i].status = "collected"

\* the aggregator is about to run on two collected domain answers
C5_Witness ==
    /\ pc = "aggregate"
    /\ categories = <<"benefits", "claims">>
    /\ \A i \in DOMAIN futures : futures[i].status = "collected"
    /\ Len(merged) = 2

\* C6: the aggregator runs in a turn if and only if the dispatch result
\* holds answers for more than one distinct domain label.
C6_AggregateIff ==
    MissDone =>
        ((invoked.aggregator > 0)
            <=> Cardinality(AnswerKeys(answers) \cap DomainLabels) > 1)

\* C7: with exactly one distinct domain label in the classification the
\* response is that label's dispatch result, whatever the completion order;
\* with a single conversational label it is that agent's output.
C7_PassThrough ==
    MissDone =>
        /\ Cardinality(DistinctDomainLabels(categories)) = 1 =>
             \E i \in DOMAIN answers :
                /\ answers[i].cat \in DistinctDomainLabels(categories)
                /\ response = PyStr(answers[i].text)
        /\ (DistinctDomainLabels(categories) = {} /\ Cardinality(Range(categories)) = 1) =>
             \E j \in DOMAIN futures : response = PyStr(futures[j].val)

----------------------------------------------------------------------------
(* Claims about the cache, under SpecCache *)

AnswerEntries(c) == {i \in DOMAIN c : c[i].val.type = "str"}

HasAnswer(c, q) == \E i \in AnswerEntries(c) : c[i].key = q

\* C8: the cache never holds more than MAX_CACHE_SIZE answer entries.
C8_Bounded == Cardinality(AnswerEntries(cache)) <= MAX_CACHE_SIZE

\* the cache is full and the first query's entries have been evicted
C8_Witness ==
    /\ Len(cache) = MAX_CACHE_SIZE
    /\ fresh > 1
    /\ <<1, 0>> \notin KeysOf(cache)
    /\ <<fresh, 0>> \in KeysOf(cache)

\* the key a step writes, if it writes one
WrittenKeys ==
    CASE pc = "classify" -> {CatKey(query)}
      [] pc = "store"    -> {query}
      [] OTHER           -> {}

\* tick of insertion of a key that is in the cache or is being written
InsertedAt(k) == IF k \in DOMAIN stamp THEN stamp[k] ELSE clock + 1

\* C9: every entry a step removes was inserted before every entry the step
\* keeps, whatever lookups came in between, and a lookup leaves the cache
\* as it was, contents and order.
C9_FIFO ==
    [][ /\ \A k \in (KeysOf(cache) \cup WrittenKeys) \ KeysOf(cache') :
              \A k2 \in KeysOf(cache') : InsertedAt(k) < InsertedAt(k2)
        /\ pc = "input" => cache' = cache ]_vars

\* the first query was looked up again, and it was still the one evicted
\* when the eleventh query was stored
C9_Witness ==
    /\ pc = "deliver"
    /\ query = <<11, 0>>
    /\ repeats = 1
    /\ Len(history) >= 1 /\ PreviousTurn[1] = <<1, 0>>
    /\ <<1, 0>> \notin KeysOf(cache)
    /\ <<2, 0>> \in KeysOf(cache)

\* C10: after 21 distinct queries, each a miss ending in a cache write, the
\* cache holds the answers of the 20 most recent and none for the first.
C10_TwentyMostRecent ==
    (pc = "input" /\ fresh = 21 /\ repeats = 0) =>
        /\ ~HasAnswer(cache, <<1, 0>>)
        /\ \A i \in 2..21 : HasAnswer(cache, <<i, 0>>)

\* answers the step removes from the cache
EvictedAnswers ==
    {i \in AnswerEntries(cache) : cache[i].key \notin KeysOf(cache')}

\* C11: update_cache counts answer entries only: no step removes an answer
\* entry while the cache holds fewer than MAX_CACHE_SIZE answer entries.
C11_AnswersOnlyCounted ==
    [][EvictedAnswers # {} => Cardinality(AnswerEntries(cache)) >= MAX_CACHE_SIZE]_vars

----------------------------------------------------------------------------
(* The LangGraph front end: insurance_assistant_langgraph.py.  Its chat()  *)
(* has no try: an exception that escapes a step ends the process.          *)

\* category_agent: no try; a corpus entry without 'title' raises KeyError
category_agent(cat, bad, p, f) ==
    IF cat \in bad THEN Raised("'title'")
    ELSE Returned(query_llm(p, f).content)

\* [c for c in cats if c in INSURANCE_CATEGORIES]
multi(cats) == insurance_cats(cats)

\* the branch of chat() that answers without a graph, and its agent's label
SingleRoute(cats) ==
    \/ cats = <<"greeting">>
    \/ cats = <<"unrelated">>
    \/ Len(multi(cats)) = 1

SingleLabel(cats) ==
    IF cats = <<"greeting">> THEN "greeting"
    ELSE IF cats = <<"unrelated">> THEN "unrelated"
    ELSE multi(cats)[1]

single_agent(cat, bad, p, f) ==
    CASE cat = "greeting"  -> greeting_agent(p, f)
      [] cat = "unrelated" -> unrelated_agent
      [] OTHER             -> category_agent(cat, bad, p, f)

Crash ==
    /\ pc' = "crashed"
    /\ fault' = TRUE

\* input(), the cache lookup; a hit prints query_cache[q + "_categories"]
\* and query_cache[q], then continues with the next input
GraphReceive(Q) ==
    /\ pc = "input"
    /\ frontend = "langgraph"
    /\ \E q \in Q :
        LET cached_answer == get_cached_answer(cache, q)
        IN  /\ query' = q
            /\ IF Truthy(cached_answer)
               THEN IF CatKey(q) \in KeysOf(cache)
                    THEN response' = cached_answer /\ pc' = "g_cached" /\ fault' = FALSE
                    ELSE response' = NoValue /\ Crash
               ELSE response' = NoValue /\ pc' = "g_classify" /\ fault' = FALSE
            /\ fresh' = IF q[1] > fresh THEN q[1] ELSE fresh
            /\ repeats' = IF q[1] > fresh THEN repeats ELSE repeats + 1
    /\ categories' = <<>>
    /\ futures' = <<>>
    /\ answers' = <<>>
    /\ merged' = <<>>
    /\ invoked' = NoCalls
    /\ UNCHANGED <<requests, frontend, badCorpus, cache, disk, history, stamp, clock, unit>>

\* continue: back to input() without history.append
GraphContinue ==
    /\ pc = "g_cached"
    /\ pc' = "input"
    /\ UNCHANGED <<requests, frontend, badCorpus, cache, disk, history, query, categories,
                   futures, answers, response, invoked, fresh, repeats, stamp,
                   clock, merged, fault, unit>>

\* cats = classify_categories(q); query_cache[q + "_categories"] = cats; save_cache
GraphClassify(P, F) ==
    /\ pc = "g_classify"
    /\ \E p \in P, f \in F :
        LET r == classify_categories(frontend, query_llm(p, f))
            c2 == dict_set(cache, CatKey(query), PyList(r.cats))
        IN  IF r.raised
            THEN /\ Crash
                 /\ UNCHANGED <<categories, cache, disk, stamp, clock>>
            ELSE /\ categories' = r.cats
                 /\ cache' = c2
                 /\ disk' = save_cache(c2)
                 /\ stamp' = Stamped(c2)
                 /\ clock' = clock + 1
                 /\ pc' = "g_route"
                 /\ fault' = FALSE
    /\ invoked' = [invoked EXCEPT !.classifier = @ + 1]
    /\ UNCHANGED <<requests, frontend, badCorpus, history, query, futures, answers,
                   response, fresh, repeats, merged, unit>>

\* greeting_agent / unrelated_agent / category_agent called directly
GraphSingle(P, F) ==
    /\ pc = "g_route"
    /\ SingleRoute(categories)
    /\ \E p \in P, f \in F :
        LET cat == SingleLabel(categories)
            r   == single_agent(cat, badCorpus, p, f)
        IN  IF r.ok
            THEN /\ response' = PyStr(r.val)
                 /\ answers' = answers_set(answers, cat, r.val)
                 /\ pc' = "g_done"
                 /\ fault' = FALSE
            ELSE /\ response' = NoValue
                 /\ UNCHANGED answers
                 /\ Crash
    /\ invoked' = [invoked EXCEPT !.agents = @ + 1]
    /\ UNCHANGED <<requests, frontend, badCorpus, cache, disk, history, query, categories,
                   futures, fresh, repeats, stamp, clock, merged, unit>>

\* nodes of the graph build_langgraph adds: one per element of categories
GraphNodes(cats) == Range(cats)

\* set_entry_point(categories[0]); every node has its one edge to "merge"
EntryPoint(cats) == cats[1]

\* nodes no edge leads to: every node but the entry point
UnreachableNodes(cats) == GraphNodes(cats) \ {EntryPoint(cats)}

\* build_langgraph raises: categories[0] of an empty list is an IndexError;
\* the graph library, which the repository does not pin, may reject at
\* add_node a name added twice and at compile() a node that is unreachable
GraphBuildRaises ==
    /\ pc = "g_route"
    /\ ~SingleRoute(categories)
    /\ IF multi(categories) = <<>> THEN TRUE
       ELSE \/ Len(multi(categories)) # Cardinality(GraphNodes(multi(categories)))
            \/ UnreachableNodes(multi(categories)) # {}
    /\ Crash
    /\ UNCHANGED <<requests, frontend, badCorpus, cache, disk, history, query, categories,
                   futures, answers, response, invoked, fresh, repeats, stamp,
                   clock, merged, unit>>

\* build_langgraph returns the compiled graph; app.invoke(init_state) starts
GraphBuild ==
    /\ pc = "g_route"
    /\ ~SingleRoute(categories)
    /\ multi(categories) # <<>>
    /\ pc' = "g_node"
    /\ UNCHANGED <<requests, frontend, badCorpus, cache, disk, history, query, categories,
                   futures, answers, response, invoked, fresh, repeats, stamp,
                   clock, merged, fault, unit>>

\* the entry point's node: state["answers"][c] = category_agent(c, ...);
\* its edge leads to "merge"; no edge leads to the other nodes
GraphNode(P, F) ==
    /\ pc = "g_node"
    /\ \E p \in P, f \in F :
        LET c == EntryPoint(multi(categories))
            r == category_agent(c, badCorpus, p, f)
        IN  IF r.ok
            THEN /\ answers' = answers_set(answers, c, r.val)
                 /\ pc' = "g_merge"
                 /\ fault' = FALSE
            ELSE /\ UNCHANGED answers
                 /\ Crash
    /\ invoked' = [invoked EXCEPT !.agents = @ + 1]
    /\ UNCHANGED <<requests, frontend, badCorpus, cache, disk, history, query, categories,
                   futures, response, fresh, repeats, stamp, clock, merged, unit>>

\* merge_node: state["final"] = aggregate_answers(query, state["answers"])
GraphMerge(P, F) ==
    /\ pc = "g_merge"
    /\ \E p \in P, f \in F :
        response' = PyStr(query_llm(p, f).content)
    /\ merged' = answers
    /\ invoked' = [invoked EXCEPT !.aggregator = @ + 1]
    /\ pc' = "g_done"
    /\ UNCHANGED <<requests, frontend, badCorpus, cache, disk, history, query, categories,
                   futures, answers, fresh, repeats, stamp, clock, fault, unit>>

\* history.append((q, response)); update_cache; save_cache; print
GraphDone ==
    /\ pc = "g_done"
    /\ history' = deque_append(history, <<query, response>>)
    /\ LET c2 == update_cache(cache, query, response)
       IN  /\ cache' = c2
           /\ disk' = save_cache(c2)
           /\ stamp' = Stamped(c2)
    /\ clock' = clock + 1
    /\ pc' = "input"
    /\ UNCHANGED <<requests, frontend, badCorpus, query, categories, futures, answers,
                   response, invoked, fresh, repeats, merged, fault, unit>>

\* the three front ends, any classification, any outcome of every call
InitAll == Start({"cli", "api", "langgraph"}, CorpusFaults, {Idle})

NextAll ==
    \/ Next
    \/ GraphReceive(PipelineQueries)
    \/ GraphContinue
    \/ GraphClassify(PrimaryReplyOutcomes, FallbackReplyOutcomes)
    \/ GraphSingle(PrimaryAnswerOutcomes, FallbackAnswerOutcomes)
    \/ GraphBuildRaises
    \/ GraphBuild
    \/ GraphNode(PrimaryAnswerOutcomes, FallbackAnswerOutcomes)
    \/ GraphMerge(PrimaryAnswerOutcomes, FallbackAnswerOutcomes)
    \/ GraphDone

SpecAll == InitAll /\ [][NextAll]_vars

----------------------------------------------------------------------------
(* Claims about a turn in each of the three front ends, under SpecAll *)

\* the turn has its answer ready to print or return
AnswerReady == pc \in {"deliver", "g_cached", "g_done"}

\* C12: in each front end no turn ends with a fault, handled by the loop or
\* not, and the answer a turn delivers is a text, for every classification
\* and every combination of backend and responder failures.
C12_AlwaysAnswered ==
    /\ ~fault
    /\ pc # "crashed"
    /\ AnswerReady => response.type = "str"

\* the step ends a turn: the front end goes back to wait for a query
TurnEnds == pc # "input" /\ pc' = "input" /\ ~fault'

\* C13: in each front end the step that ends a turn appends (query, answer)
\* to the history once, on the cache-hit path too, no other step touches the
\* history, and after a miss the cache holds the answer under the query.
C13_DoneAppendsOnce ==
    [][ /\ TurnEnds =>
            /\ history' = deque_append(history, <<query, response>>)
            /\ invoked.classifier > 0 => dict_get(cache', query) = response
        /\ ~TurnEnds => history' = history ]_vars

----------------------------------------------------------------------------
(* Claims about the thread-pool CLI and the endpoint, under Spec *)

\* the steps of Done: the final cache write and the history append
InDone == pc \in {"store", "deliver"}

\* C14: within a turn the cache, in memory and on disk, and the history are
\* unchanged by every step before Done: the cache check, classifying,
\* dispatching and aggregating mutate neither.
C14_OnlyDoneMutates ==
    [][~InDone => (cache' = cache /\ disk' = disk /\ history' = history)]_vars

----------------------------------------------------------------------------
(* Claims about the persisted cache and the history, under SpecCache *)

\* update_cache has returned in this turn, or a turn has been completed
AfterPut == (pc = "deliver" /\ invoked.classifier > 0) \/ (pc = "input" /\ fresh > 0)

\* C15: whenever update_cache has returned, and at the end of every
\* completed turn, the cache file holds the in-memory cache: the same keys
\* and values in the same order.
C15_PersistedInSync ==
    AfterPut => (disk.kind = "object" /\ load_cache(disk).dict = cache)

\* the answer of the eleventh query has just been stored and the first
\* query's entries evicted, in memory and in the file
C15_Witness ==
    /\ pc = "deliver"
    /\ invoked.classifier > 0
    /\ query = <<11, 0>>
    /\ Len(disk.members) = MAX_CACHE_SIZE
    /\ disk.members[1].key = <<2, 1>>
    /\ disk.members[MAX_CACHE_SIZE].key = <<11, 0>>
    /\ disk.members[MAX_CACHE_SIZE].val.json = "string"

\* the n most recent elements of s, oldest first
MostRecent(s, n) == IF Len(s) <= n THEN s ELSE SubSeq(s, Len(s) - n + 1, Len(s))

\* C16: the history never holds more than MAX_HISTORY turns, and every
\* append leaves exactly the most recent MAX_HISTORY of the pairs appended
\* so far, in insertion order, the oldest dropped first; no other step
\* changes it.
C16_HistoryWindow ==
    [][ /\ Len(history') <= MAX_HISTORY
        /\ IF pc = "deliver"
           THEN history' = MostRecent(Append(history, <<query, response>>), MAX_HISTORY)
           ELSE history' = history ]_vars

\* six turns done: the first has been dropped, the last five are kept in order
C16_Witness ==
    /\ pc = "input"
    /\ fresh = 6
    /\ repeats = 0
    /\ Len(history) = MAX_HISTORY
    /\ \A i \in 1..MAX_HISTORY : history[i][1] = <<i + 1, 0>>

----------------------------------------------------------------------------
(* Claims about the dispatcher, under Spec *)

Dispatched == pc \in {"collect", "aggregate", "store"} \/ MissDone

\* C17: for every label list the classifier returns, the dispatcher starts
\* exactly one agent per distinct label of the list and none for any other
\* label, and once all have been collected the dispatch result has exactly
\* one entry per dispatched label.
C17_OnePerLabel ==
    Dispatched =>
        /\ \A c \in Range(categories) : Cardinality(FuturesOf(c)) = 1
        /\ \A j \in DOMAIN futures : futures[j].cat \in Range(categories)
        /\ JoinAll => /\ AnswerKeys(answers) = Range(categories)
                      /\ Len(answers) = Cardinality(Range(categories))

----------------------------------------------------------------------------
(* The three front ends when every backend call succeeds and the corpora   *)
(* are well formed                                                         *)

SuccessfulReplies == {Outcome(TRUE, c) : c \in ClassifierReplies}

SuccessfulAnswers == {Outcome(TRUE, c) : c \in AnswerTexts}

InitSuccess == Start({"cli", "api", "langgraph"}, {{}}, {Idle})

NextSuccess ==
    \/ Receive(PipelineQueries)
    \/ Exit
    \/ Classify(SuccessfulReplies, CacheFallback)
    \/ Submit
    \/ RunAgent(SuccessfulAnswers, CacheFallback)
    \/ Collect
    \/ Select
    \/ Aggregate(SuccessfulAnswers, CacheFallback)
    \/ Store
    \/ Deliver
    \/ GraphReceive(PipelineQueries)
    \/ GraphContinue
    \/ GraphClassify(SuccessfulReplies, CacheFallback)
    \/ GraphSingle(SuccessfulAnswers, CacheFallback)
    \/ GraphBuildRaises
    \/ GraphBuild
    \/ GraphNode(SuccessfulAnswers, CacheFallback)
    \/ GraphMerge(SuccessfulAnswers, CacheFallback)
    \/ GraphDone

SpecSuccess == InitSuccess /\ [][NextSuccess]_vars

\* the classification of the turn has two or more distinct domain labels
MultiTopic == Cardinality(DistinctDomainLabels(categories)) >= 2

\* C18: when the classification has two or more distinct domain labels and
\* every backend call succeeds, each of those labels' agents yields the
\* backend's text and not an error marker, the aggregator is given exactly
\* the answers of the domain labels, and its output is the response, which
\* the turn caches under the query and appends to the history.
C18_MultiTopicSuccess ==
    /\ (MultiTopic /\ (MissDone \/ pc = "g_done")) =>
          /\ \A c \in DistinctDomainLabels(categories) :
                \E i \in DOMAIN answers :
                    answers[i].cat = c /\ answers[i].text \in AnswerTexts
          /\ invoked.aggregator = 1
          /\ AnswerKeys(merged) = DistinctDomainLabels(categories)
          /\ \A i \in DOMAIN merged : merged[i].text \in AnswerTexts
          /\ response.type = "str" /\ response.text \in AnswerTexts
    /\ (MultiTopic /\ pc = "input" /\ invoked.classifier > 0) =>
          /\ PreviousTurn = <<query, response>>
          /\ dict_get(cache, query) = response

----------------------------------------------------------------------------
(* Process start on any cache file: query_cache = load_cache() *)

\* members a cache file may hold at most
MaxMembers == 2

FileKeys == {<<1, 0>>, <<1, 1>>, <<2, 0>>}

FileValues == {json_of(PyStr(Text("t1"))), json_of(PyStr(Text(""))),
               json_of(PyList(<<"benefits">>))}

\* sequences of members with distinct keys
FileMembers ==
    {m \in SeqsUpTo([key : FileKeys, val : FileValues], MaxMembers) :
        \A i, j \in DOMAIN m : i # j => m[i].key # m[j].key}

CacheFiles ==
    {File(k, <<>>) : k \in {"missing", "unreadable", "garbage", "scalar"}}
    \cup {File(k, m) : k \in {"object", "pairs"}, m \in FileMembers}

InitLoad ==
    /\ frontend \in {"cli", "api", "langgraph"}
    /\ badCorpus = {}
    /\ disk \in CacheFiles
    /\ cache = <<>>
    /\ history = <<>>
    /\ pc = "start"
    /\ query = <<0, 0>>
    /\ categories = <<>>
    /\ futures = <<>>
    /\ answers = <<>>
    /\ response = NoValue
    /\ invoked = NoCalls
    /\ fresh = 0
    /\ repeats = 0
    /\ stamp = <<>>
    /\ clock = 0
    /\ merged = <<>>
    /\ fault = FALSE
    /\ unit = Idle
    /\ requests = <<>>

\* query_cache = load_cache() when the module is loaded
LoadCache ==
    /\ pc = "start"
    /\ LET r == load_cache(disk)
       IN  IF r.raised
           THEN /\ Crash
                /\ UNCHANGED cache
           ELSE /\ cache' = r.dict
                /\ pc' = "input"
                /\ fault' = FALSE
    /\ UNCHANGED <<requests, frontend, badCorpus, disk, history, query, categories,
                   futures, answers, response, invoked, fresh, repeats, stamp,
                   clock, merged, unit>>

NextLoad == LoadCache

SpecLoad == InitLoad /\ [][NextLoad]_vars

\* the file yields no entries: it is missing, cannot be opened, or is not
\* the JSON of a collection of entries
Unloadable(file) == file.kind \in {"missing", "unreadable", "garbage", "scalar"}

\* C19: load_cache never fails process start; the cache starts empty when
\* the file is missing, unreadable or malformed, and otherwise starts with
\* the persisted entries in their persisted order.
C19_LoadTotal ==
    /\ pc # "crashed"
    /\ pc = "input" =>
          IF Unloadable(disk) THEN cache = <<>>
          ELSE /\ Len(cache) = Len(disk.members)
               /\ \A i \in DOMAIN cache :
                     /\ cache[i].key = disk.members[i].key
                     /\ json_of(cache[i].val) = disk.members[i].val

\* a file that is not JSON was read and the process started with an empty cache
C19_Witness ==
    /\ pc = "input"
    /\ disk.kind = "garbage"
    /\ cache = <<>>

----------------------------------------------------------------------------
(* The graph of the LangGraph front end's multi-topic path *)

\* the merge node is about to run on a graph of two or more distinct labels
AtMerge ==
    /\ frontend = "langgraph"
    /\ pc = "g_merge"
    /\ Len(multi(categories)) >= 2
    /\ Cardinality(GraphNodes(multi(categories))) = Len(multi(categories))

\* C20: in the LangGraph front end, for a classification with k >= 2 domain
\* labels, the node of each of the k labels has run when the merge node
\* runs, and the merge node aggregates exactly k answers, one per label.
C20_AllNodesBeforeMerge ==
    AtMerge =>
        /\ invoked.agents = Len(multi(categories))
        /\ Len(answers) = Len(multi(categories))
        /\ AnswerKeys(answers) = GraphNodes(multi(categories))

----------------------------------------------------------------------------
(* Turns in which save_cache raises: open() or json.dump fails *)

\* the file a failed save_cache leaves: untouched when open() raises,
\* truncated or partly written when the write raises
FailedSave(file) == {file, File("garbage", <<>>)}

\* classify_categories returns, query_cache[q + '_categories'] is set, and
\* save_cache raises: the exception leaves the turn (the CLI loop prints
\* "Error in chat loop", the endpoint answers with a server error)
ClassifyWriteFails(P, F) ==
    /\ pc = "classify"
    /\ \E p \in P, f \in F :
        LET r == classify_categories(frontend, query_llm(p, f))
            c2 == dict_set(cache, CatKey(query), PyList(r.cats))
        IN  /\ ~r.raised
            /\ categories' = r.cats
            /\ cache' = c2
            /\ stamp' = Stamped(c2)
    /\ disk' \in FailedSave(disk)
    /\ clock' = clock + 1
    /\ fault' = TRUE
    /\ pc' = "input"
    /\ invoked' = [invoked EXCEPT !.classifier = @ + 1]
    /\ UNCHANGED <<requests, frontend, badCorpus, history, query, futures, answers,
                   response, fresh, repeats, merged, unit>>

\* update_cache sets cache[query], evicts, and its save_cache raises
StoreWriteFails ==
    /\ pc = "store"
    /\ LET c2 == update_cache(cache, query, response)
       IN  /\ cache' = c2
           /\ stamp' = Stamped(c2)
    /\ disk' \in FailedSave(disk)
    /\ clock' = clock + 1
    /\ fault' = TRUE
    /\ pc' = "input"
    /\ UNCHANGED <<requests, frontend, badCorpus, history, query, categories, futures,
                   answers, response, invoked, fresh, repeats, merged, unit>>

NextWrite ==
    \/ Next
    \/ ClassifyWriteFails(PrimaryReplyOutcomes, FallbackReplyOutcomes)
    \/ StoreWriteFails

SpecWrite == Init /\ [][NextWrite]_vars

\* C21: a turn whose classification was written to the cache goes on to its
\* responders, and a turn whose text answer is computed goes on to deliver it
\* and to append (query, answer) to the history, whether or not the write to
\* the cache file fails; the failure does not end the turn with a fault.
C21_WriteFailureTolerated ==
    [][ /\ (pc = "classify" /\ cache' # cache) => (pc' = "submit" /\ ~fault')
        /\ (pc = "store" /\ response.type = "str") => (pc' = "deliver" /\ ~fault')
        /\ (pc = "deliver" /\ pc' # "deliver") =>
              history' = deque_append(history, <<query, response>>) ]_vars

----------------------------------------------------------------------------
(* Sequential turns without faults, on a query text and on that text      *)
(* followed by '_categories': <<1, 0>> and <<1, 1>>                        *)

\* either text first, then either text again
CollidingQueries ==
    IF fresh = 0 \/ repeats < MaxRepeats THEN {<<1, 0>>, <<1, 1>>} ELSE {}

\* well-formed classifications: one label, two labels, a greeting
CollideReplies ==
    {Outcome(TRUE, ListText(<< <<"str", "benefits">> >>)),
     Outcome(TRUE, ListText(<< <<"str", "benefits">>, <<"str", "claims">> >>)),
     Outcome(TRUE, ListText(<< <<"str", "greeting">> >>))}

\* "categories": query_cache.get(user_query + '_categories', []) in the
\* endpoint's return value
reported_categories(c, q) ==
    IF CatKey(q) \in KeysOf(c) THEN dict_get(c, CatKey(q)) ELSE PyList(<<>>)

NextCollide ==
    \/ Receive(CollidingQueries)
    \/ Exit
    \/ Classify(CollideReplies, CacheFallback)
    \/ Submit
    \/ RunAgent(SuccessfulAnswers, CacheFallback)
    \/ Collect
    \/ Select
    \/ Aggregate(SuccessfulAnswers, CacheFallback)
    \/ Store
    \/ Deliver
    \/ GraphReceive(CollidingQueries)
    \/ GraphContinue
    \/ GraphClassify(CollideReplies, CacheFallback)
    \/ GraphSingle(SuccessfulAnswers, CacheFallback)
    \/ GraphBuildRaises
    \/ GraphBuild
    \/ GraphNode(SuccessfulAnswers, CacheFallback)
    \/ GraphMerge(SuccessfulAnswers, CacheFallback)
    \/ GraphDone

SpecCollide == InitSuccess /\ [][NextCollide]_vars

\* the turn is a cache hit: the lookup found a truthy value and nothing was
\* classified (in the LangGraph front end the hit may have ended the process)
CacheHit ==
    /\ invoked = NoCalls
    /\ pc \in {"deliver", "g_cached", "crashed"}

\* C22: in sequential operation from an empty cache without faults, between
\* turns every answer entry of the cache has the classification entry of its
\* query, and every cache hit finds the classification entry of its query:
\* the endpoint does not report the empty default and the LangGraph front
\* end does not fail on a missing key.
C22_HitReportsLabels ==
    /\ (pc = "input" /\ ~fault) =>
          \A i \in AnswerEntries(cache) : CatKey(cache[i].key) \in KeysOf(cache)
    /\ CacheHit =>
          /\ pc # "crashed"
          /\ CatKey(query) \in KeysOf(cache)
          /\ reported_categories(cache, query) # PyList(<<>>)


\* the step is a cache hit: the lookup's value becomes the response
HitStep == pc = "input" /\ pc' \in {"deliver", "g_cached"}

\* the step is the classification write query_cache[q + '_categories'] = ...
ClassificationWrite == pc \in {"classify", "g_classify"} /\ cache' # cache

\* C23: a cache hit for a query text returns a value that an earlier turn
\* stored as the answer to that text, never a classification entry, and a
\* classification write leaves every answer entry as it was, for all
\* sequences of queries, a text and that text followed by '_categories'
\* included.
C23_NoKeyCollision ==
    [][ /\ HitStep => response'.type = "str"
        /\ ClassificationWrite =>
              \A i \in AnswerEntries(cache) :
                  dict_get(cache', cache[i].key) = cache[i].val ]_vars

----------------------------------------------------------------------------
(* The endpoint with overlapping requests: chat_endpoint is a plain def,   *)
(* so each request runs on its own thread of the server's pool; the       *)
(* requests share query_cache and history and have their own locals       *)

\* the requests that may be in flight together
Requests == {"a", "b"}

\* the request the server accepts next
NextRequest ==
    IF "a" \notin DOMAIN requests THEN {"a"}
    ELSE IF "b" \notin DOMAIN requests THEN {"b"}
    ELSE {}

\* the query texts of the requests
OverlapQueries == {<<1, 0>>, <<2, 0>>}

\* answers of the backend to the greeting agent and to the aggregator
OverlapAnswers == {Outcome(TRUE, Text("t1")), Outcome(TRUE, Text("t2"))}

\* the locals of chat_endpoint for one request
Locals(q) ==
    [pc |-> "lookup", query |-> q, categories |-> <<>>, futures |-> <<>>,
     answers |-> <<>>, response |-> NoValue, dispatched |-> <<>>]

\* history_text = ... for h in history_context: the domain agents read the
\* shared deque when they run; greeting_agent and unrelated_agent do not
ReadsHistory(cat) == cat \in DomainLabels

With(r, locals) == [x \in DOMAIN requests |-> IF x = r THEN locals ELSE requests[x]]

Shared == <<cache, disk, history, stamp, clock>>

Turn == <<frontend, badCorpus, pc, query, categories, futures, answers,
          response, invoked, fresh, repeats, merged, fault, unit>>

\* a request arrives: user_query = request.query.strip()
Arrive(Q) ==
    /\ \E r \in NextRequest, q \in Q :
          requests' = [x \in DOMAIN requests \cup {r} |->
                          IF x = r THEN Locals(q) ELSE requests[x]]
    /\ UNCHANGED <<Shared, Turn>>

\* cached_answer = get_cached_answer(query_cache, user_query) and the branch
Lookup ==
    /\ \E r \in DOMAIN requests :
        /\ requests[r].pc = "lookup"
        /\ LET cached_answer == get_cached_answer(cache, requests[r].query)
           IN  requests' = With(r,
                  IF Truthy(cached_answer)
                  THEN [requests[r] EXCEPT !.response = cached_answer, !.pc = "append"]
                  ELSE [requests[r] EXCEPT !.pc = "classify"])
    /\ UNCHANGED <<Shared, Turn>>

\* classify_categories, query_cache[q + '_categories'] = categories, save_cache
OverlapClassify(P, F) ==
    /\ \E r \in DOMAIN requests :
        /\ requests[r].pc = "classify"
        /\ \E p \in P, f \in F :
            LET c  == classify_categories("api", query_llm(p, f))
                c2 == dict_set(cache, CatKey(requests[r].query), PyList(c.cats))
            IN  IF c.raised
                THEN /\ requests' = With(r, [requests[r] EXCEPT !.pc = "failed"])
                     /\ UNCHANGED <<cache, disk, stamp, clock>>
                ELSE /\ requests' = With(r, [requests[r] EXCEPT !.categories = c.cats,
                                                                !.pc = "submit"])
                     /\ cache' = c2
                     /\ disk' = save_cache(c2)
                     /\ stamp' = Stamped(c2)
                     /\ clock' = clock + 1
    /\ UNCHANGED <<history, Turn>>

\* executor.submit(category_agents_map[cat], user_query, history) for each cat:
\* every task is handed the shared deque itself
OverlapSubmit ==
    /\ \E r \in DOMAIN requests :
        /\ requests[r].pc = "submit"
        /\ requests' = With(r,
             [requests[r] EXCEPT
                !.futures = [i \in DOMAIN requests[r].categories |->
                               [cat |-> requests[r].categories[i], status |-> "pending",
                                ok |-> TRUE, val |-> Text(""), seen |-> <<>>]],
                !.dispatched = history,
                !.pc = "collect"])
    /\ UNCHANGED <<Shared, Turn>>

\* a worker thread runs one submitted agent to its end
OverlapRunAgent(P, F) ==
    /\ \E r \in DOMAIN requests :
        /\ requests[r].pc = "collect"
        /\ \E i \in DOMAIN requests[r].futures :
            /\ requests[r].futures[i].status = "pending"
            /\ \E p \in P, f \in F :
                LET cat == requests[r].futures[i].cat
                    a   == run_agent("api", cat, badCorpus, p, f)
                IN  requests' = With(r,
                       [requests[r] EXCEPT !.futures[i] =
                           [cat |-> cat, status |-> "finished", ok |-> a.ok, val |-> a.val,
                            seen |-> IF ReadsHistory(cat) THEN history
                                     ELSE requests[r].dispatched]])
    /\ UNCHANGED <<Shared, Turn>>

\* as_completed yields a finished future; its result or its error is stored
OverlapCollect ==
    /\ \E r \in DOMAIN requests :
        /\ requests[r].pc = "collect"
        /\ \E i \in DOMAIN requests[r].futures :
            /\ requests[r].futures[i].status = "finished"
            /\ requests' = With(r,
                 [requests[r] EXCEPT
                    !.answers = answers_set(@, requests[r].futures[i].cat,
                                            collected_text(requests[r].futures[i])),
                    !.futures[i].status = "collected"])
    /\ UNCHANGED <<Shared, Turn>>

\* after the with block: aggregate, or take the first value of answers
OverlapSelect ==
    /\ \E r \in DOMAIN requests :
        /\ requests[r].pc = "collect"
        /\ \A i \in DOMAIN requests[r].futures : requests[r].futures[i].status = "collected"
        /\ requests' = With(r,
             IF NeedsAggregation(requests[r].categories)
             THEN [requests[r] EXCEPT !.pc = "aggregate"]
             ELSE [requests[r] EXCEPT !.response = PyStr(first_answer(requests[r].answers)),
                                      !.pc = "store"])
    /\ UNCHANGED <<Shared, Turn>>

\* aggregate_answers(user_query, insurance_answers)
OverlapAggregate(P, F) ==
    /\ \E r \in DOMAIN requests :
        /\ requests[r].pc = "aggregate"
        /\ \E p \in P, f \in F :
            LET a == aggregate_answers("api", p, f)
            IN  requests' = With(r,
                   IF a.ok
                   THEN [requests[r] EXCEPT !.response = PyStr(a.val), !.pc = "store"]
                   ELSE [requests[r] EXCEPT !.pc = "failed"])
    /\ UNCHANGED <<Shared, Turn>>

\* update_cache(query_cache, user_query, response); save_cache(query_cache)
OverlapStore ==
    /\ \E r \in DOMAIN requests :
        /\ requests[r].pc = "store"
        /\ LET c2 == update_cache(cache, requests[r].query, requests[r].response)
           IN  /\ cache' = c2
               /\ disk' = save_cache(c2)
               /\ stamp' = Stamped(c2)
        /\ clock' = clock + 1
        /\ requests' = With(r, [requests[r] EXCEPT !.pc = "append"])
    /\ UNCHANGED <<history, Turn>>

\* history.append((user_query, response)); return {...}
OverlapReturn ==
    /\ \E r \in DOMAIN requests :
        /\ requests[r].pc = "append"
        /\ history' = deque_append(history, <<requests[r].query, requests[r].response>>)
        /\ requests' = With(r, [requests[r] EXCEPT !.pc = "returned"])
    /\ UNCHANGED <<cache, disk, stamp, clock, Turn>>

InitOverlap == Start({"api"}, {{}}, {Idle})

NextOverlap ==
    \/ Arrive(OverlapQueries)
    \/ Lookup
    \/ OverlapClassify(CollideReplies, CacheFallback)
    \/ OverlapSubmit
    \/ OverlapRunAgent(OverlapAnswers, CacheFallback)
    \/ OverlapCollect
    \/ OverlapSelect
    \/ OverlapAggregate(OverlapAnswers, CacheFallback)
    \/ OverlapStore
    \/ OverlapReturn

SpecOverlap == InitOverlap /\ [][NextOverlap]_vars


\* C24: in the endpoint with overlapping requests, the responses returned
\* for one query text while its answer entry stays in the cache are
\* identical: two requests for the same uncached text return the same
\* answer, and no step replaces a cached answer by a different one while
\* its key stays in the cache.
C24_SameAnswerPerQuery ==
    [][ /\ \A r1 \in DOMAIN requests', r2 \in DOMAIN requests' :
              (/\ requests'[r1].pc = "returned"
               /\ requests'[r2].pc = "returned"
               /\ requests'[r1].query = requests'[r2].query)
              => requests'[r1].response = requests'[r2].response
        /\ \A i \in AnswerEntries(cache) :
              cache[i].key \in KeysOf(cache') =>
                  dict_get(cache', cache[i].key) = cache[i].val ]_vars

\* C25: in the endpoint with overlapping requests, the history an agent of a
\* request reads is the history as it was when the request's dispatch
\* began, that is the turns completed before it, and no step changes the
\* history while a request is between the start and the end of its dispatch.
C25_HistoryStableInDispatch ==
    [][ /\ \A r \in DOMAIN requests' :
              \A i \in DOMAIN requests'[r].futures :
                  requests'[r].futures[i].status # "pending" =>
                      requests'[r].futures[i].seen = requests'[r].dispatched
        /\ (\E r \in DOMAIN requests : requests[r].pc = "collect") =>
              history' = history ]_vars

====
